---- MODULE Spec2Model ----
(***************************************************************************)
(* The three first-person movement controllers of the repository:          *)
(*   "script1"  src/script.js lines 1-247   (walk, sprint, jump, walls)    *)
(*   "script2"  src/script.js lines 249-487 (adds crouch and wall jump)    *)
(*   "game"     src/game.js                 (crouch, ground ray, walls)    *)
(*                                                                         *)
(* Numbers.  Lengths, velocities and speeds are fixed-point integers in    *)
(* thousandths (1.8 is 1800); a tick's delta is in milliseconds, which is  *)
(* seconds in thousandths.  A product is rounded toward zero at that       *)
(* resolution, where the JavaScript doubles round to 53 bits.              *)
(* Orientation.  The yaw is a number of quarter turns 0..3 (pitch 0), so   *)
(* the camera's right and forward vectors are exact axis vectors.          *)
(***************************************************************************)
EXTENDS Integers, FiniteSets, Sequences, TLC

VARIABLES variant, moveForward, moveBackward, moveLeft, moveRight, canJump,
          isSprinting, isCrouching, velocity, position, isLocked, yaw,
          now, prevTime, clockRunning, frames, lastOp

vars == <<variant, moveForward, moveBackward, moveLeft, moveRight, canJump,
          isSprinting, isCrouching, velocity, position, isLocked, yaw,
          now, prevTime, clockRunning, frames, lastOp>>

----------------------------------------------------------------------------
(* Fixed-point arithmetic *)

MILLI == 10 ^ 3

Abs(a) == IF a < 0 THEN -a ELSE a

Sign(a) == IF a > 0 THEN 1 ELSE IF a < 0 THEN -1 ELSE 0

\* a / b rounded toward zero (b > 0)
TruncDiv(a, b) == IF a >= 0 THEN a \div b ELSE -((-a) \div b)

\* the fixed-point product a * b, rounded toward zero; the split keeps the
\* intermediate values within TLC's 32-bit integers
Mul(a, b) ==
    LET x == Abs(a)
        y == Abs(b)
    IN  Sign(a) * Sign(b) * ((x \div MILLI) * y + ((x % MILLI) * y) \div MILLI)

Vec(x, y, z) == [x |-> x, y |-> y, z |-> z]

\* a box mesh: centre (x, y, z), size (w, h, d), as BoxGeometry places it
Box(x, y, z, w, h, d) ==
    [min |-> Vec(x - w \div 2, y - h \div 2, z - d \div 2),
     max |-> Vec(x + w \div 2, y + h \div 2, z + d \div 2)]

----------------------------------------------------------------------------
(* Configuration: src/script.js 5-10 (script1), 253-261 (script2),         *)
(* src/game.js 12-18 (game)                                                *)

WALK_SPEED_1 == 50000
SPRINT_SPEED_1 == 90000
JUMP_FORCE_1 == 20000
GRAVITY_1 == 60000
PLAYER_HEIGHT_1 == 1800
PLAYER_RADIUS_1 == 1500

MOVEMENT_SPEED_2 == 10000
SPRINT_MULTIPLIER_2 == 1800
CROUCH_SPEED_2 == 5000
JUMP_FORCE_2 == 15000
WALL_JUMP_FORCE_UP_2 == 20000
GRAVITY_2 == 40000
PLAYER_HEIGHT_2 == 1800
CROUCH_HEIGHT_2 == 900

NORMAL_SPEED_G == 5000
SPRINT_SPEED_G == 10000
CROUCH_SPEED_G == 2500
JUMP_VELOCITY_G == 8000
GRAVITY_G == 20000
NORMAL_HEIGHT_G == 1800
CROUCH_HEIGHT_G == 900

\* the unit diagonal's components, 1/sqrt(2), as direction.normalize() gives
DIAG == 707

\* sqrt(2), the length of a (1, 0, 1) step
SQRT2 == 1414

----------------------------------------------------------------------------
(* The level: the meshes each variant pushes to its collision array *)

wallObjects ==
    { Box(5000, 2500, 0, 10000, 5000, 1000),
      Box(-5000, 2500, 5000, 1000, 5000, 10000),
      Box(0, 2500, -10000, 20000, 5000, 1000),
      Box(10000, 1000, 10000, 4000, 2000, 4000),
      Box(-8000, 3000, -5000, 4000, 6000, 4000) }

objects ==
    { Box(10000, 5000, 0, 2000, 10000, 20000),
      Box(-10000, 2000, -10000, 5000, 4000, 5000),
      Box(0, 10000, -20000, 20000, 20000, 2000) }

collidableObjects ==
    { Box(0, 2500, -50000, 100000, 5000, 1000),
      Box(0, 2500, 50000, 100000, 5000, 1000),
      Box(-50000, 2500, 0, 1000, 5000, 100000),
      Box(50000, 2500, 0, 1000, 5000, 100000),
      Box(-20000, 2500, 0, 2000, 5000, 30000),
      Box(20000, 2500, 0, 2000, 5000, 30000),
      Box(0, 2500, -20000, 30000, 5000, 2000),
      Box(0, 2500, 20000, 30000, 5000, 2000),
      Box(-10000, 1000, -10000, 3000, 2000, 3000),
      Box(10000, 1500, -10000, 3000, 3000, 3000),
      Box(-10000, 2000, 10000, 3000, 4000, 3000),
      Box(10000, 2500, 10000, 3000, 5000, 3000),
      Box(-30000, 3000, -30000, 8000, 500, 8000),
      Box(30000, 4000, -30000, 8000, 500, 8000),
      Box(-30000, 5000, 30000, 8000, 500, 8000),
      Box(30000, 6000, 30000, 8000, 500, 8000) }

----------------------------------------------------------------------------
(* Raycaster.intersectObjects on box meshes.  A ray direction d has        *)
(* components in {-1, 0, 1}: (0,0,0) is what normalize() makes of a zero    *)
(* displacement, one nonzero component is an axis ray, two are the unit     *)
(* diagonal.  A mesh is hit on its front faces only (the materials keep    *)
(* the default FrontSide), so a ray that starts inside a box does not hit  *)
(* that box, and a ray with a zero direction hits nothing.                 *)

Max2(a, b) == IF a >= b THEN a ELSE b

Min2(a, b) == IF a <= b THEN a ELSE b

\* entry and exit parameters of the ray on one axis; Unbounded where the
\* ray does not move along the axis
Unbounded == 10 ^ 9

SlabEnter(o, d, lo, hi) ==
    IF d > 0 THEN lo - o ELSE IF d < 0 THEN o - hi ELSE -Unbounded

SlabExit(o, d, lo, hi) ==
    IF d > 0 THEN hi - o ELSE IF d < 0 THEN o - lo ELSE Unbounded

Inside(o, d, lo, hi) == d # 0 \/ (lo <= o /\ o <= hi)

\* the ray's length per unit of parameter, in thousandths
RayNorm(d) ==
    IF Abs(d.x) + Abs(d.y) + Abs(d.z) = 2 THEN SQRT2 ELSE MILLI

\* distance at which the ray from o along d enters box b, or -1
HitDistance(o, d, b) ==
    LET tin  == Max2(SlabEnter(o.x, d.x, b.min.x, b.max.x),
                Max2(SlabEnter(o.y, d.y, b.min.y, b.max.y),
                     SlabEnter(o.z, d.z, b.min.z, b.max.z)))
        tout == Min2(SlabExit(o.x, d.x, b.min.x, b.max.x),
                Min2(SlabExit(o.y, d.y, b.min.y, b.max.y),
                     SlabExit(o.z, d.z, b.min.z, b.max.z)))
    IN  IF /\ d # Vec(0, 0, 0)
           /\ Inside(o.x, d.x, b.min.x, b.max.x)
           /\ Inside(o.y, d.y, b.min.y, b.max.y)
           /\ Inside(o.z, d.z, b.min.z, b.max.z)
           /\ tin >= 0
           /\ tin <= tout
        THEN Mul(tin, RayNorm(d))
        ELSE -1

\* the distances of the hits within [0, far], as intersectObjects lists them
Intersections(o, d, far, boxes) ==
    { t \in { HitDistance(o, d, b) : b \in boxes } : t >= 0 /\ t <= far }

\* intersects[0].distance: the list is sorted by distance
Nearest(hits) == CHOOSE t \in hits : \A u \in hits : t <= u

\* a vector turned by the yaw about the Y axis (applyAxisAngle), in quarter
\* turns: cos, sin in {1, 0, -1}
Cos4(q) == CASE q = 0 -> 1 [] q = 1 -> 0 [] q = 2 -> -1 [] OTHER -> 0

Sin4(q) == CASE q = 0 -> 0 [] q = 1 -> 1 [] q = 2 -> 0 [] OTHER -> -1

applyAxisAngle(v, q) ==
    Vec(v.x * Cos4(q) + v.z * Sin4(q), v.y, v.z * Cos4(q) - v.x * Sin4(q))

\* the camera's right vector (column 0 of its matrix) and its horizontal
\* forward vector (up x right), as PointerLockControls and game.js use them
RightVec(q) == applyAxisAngle(Vec(1, 0, 0), q)

ForwardVec(q) == applyAxisAngle(Vec(0, 0, -1), q)

AddScaled(p, v, dist) == Vec(p.x + v.x * dist, p.y + v.y * dist, p.z + v.z * dist)

\* direction.normalize() of (right - left, forward - backward)
Normalized(dx, dz) ==
    IF dx # 0 /\ dz # 0 THEN [x |-> dx * DIAG, z |-> dz * DIAG]
    ELSE [x |-> dx * MILLI, z |-> dz * MILLI]

Num(b) == IF b THEN 1 ELSE 0

----------------------------------------------------------------------------
(* The controller state the handlers read and write *)

cur == [moveForward |-> moveForward, moveBackward |-> moveBackward,
        moveLeft |-> moveLeft, moveRight |-> moveRight, canJump |-> canJump,
        isSprinting |-> isSprinting, isCrouching |-> isCrouching,
        velocity |-> velocity, position |-> position]

\* Friction with the sign of its correction reversed: v += v * 10.0 * delta
Friction_Reversed(v, delta) == v + Mul(10 * v, delta)

\* v -= v * 10.0 * delta
Friction(v, delta) == v - Mul(10 * v, delta)

\* p += v * delta
Integrate(p, v, delta) == p + Mul(v, delta)

\* the intent vector of the four directional flags, normalized
Direction(s) ==
    Normalized(Num(s.moveRight) - Num(s.moveLeft),
               Num(s.moveForward) - Num(s.moveBackward))

\* controls.moveRight(distance), controls.moveForward(distance)
moveRightBy(p, q, distance) == AddScaled(p, RightVec(q), distance)

moveForwardBy(p, q, distance) == AddScaled(p, ForwardVec(q), distance)

----------------------------------------------------------------------------
(* script1: src/script.js 1-247 *)

\* jump_1 without its canJump test
jump_1_Unguarded(s) == [s EXCEPT !.velocity.y = JUMP_FORCE_1, !.canJump = FALSE]

\* case 'Space'
jump_1(s) ==
    IF s.canJump
    THEN [s EXCEPT !.velocity.y = JUMP_FORCE_1, !.canJump = FALSE]
    ELSE s

onKeyDown_1(s, code) ==
    CASE code = "KeyW" -> [s EXCEPT !.moveForward = TRUE]
      [] code = "KeyA" -> [s EXCEPT !.moveLeft = TRUE]
      [] code = "KeyS" -> [s EXCEPT !.moveBackward = TRUE]
      [] code = "KeyD" -> [s EXCEPT !.moveRight = TRUE]
      [] code = "Space" -> jump_1(s)
      [] code = "ShiftLeft" -> [s EXCEPT !.isSprinting = TRUE]
      [] OTHER -> s

onKeyUp_1(s, code) ==
    CASE code = "KeyW" -> [s EXCEPT !.moveForward = FALSE]
      [] code = "KeyA" -> [s EXCEPT !.moveLeft = FALSE]
      [] code = "KeyS" -> [s EXCEPT !.moveBackward = FALSE]
      [] code = "KeyD" -> [s EXCEPT !.moveRight = FALSE]
      [] code = "ShiftLeft" -> [s EXCEPT !.isSprinting = FALSE]
      [] OTHER -> s

\* detectCollision(newPosition), called when the camera is at cameraPosition:
\* playerPos is a clone of the camera position, the ray runs from it toward
\* newPosition with far = PLAYER_RADIUS
detectCollision(newPosition, cameraPosition) ==
    LET playerPos == cameraPosition
        dir == Vec(Sign(newPosition.x - playerPos.x),
                   Sign(newPosition.y - playerPos.y),
                   Sign(newPosition.z - playerPos.z))
    IN  Intersections(playerPos, dir, PLAYER_RADIUS_1, wallObjects) # {}

currentSpeed_1(s) == IF s.isSprinting THEN SPRINT_SPEED_1 ELSE WALK_SPEED_1

\* steps 1-4 of animate: damping, gravity, input direction, acceleration
updateVelocity_1(s, delta) ==
    LET vx == Friction(s.velocity.x, delta)
        vz == Friction(s.velocity.z, delta)
        vy == s.velocity.y - Mul(GRAVITY_1, delta)
        direction == Direction(s)
        currentSpeed == currentSpeed_1(s)
    IN  [s EXCEPT !.velocity =
            Vec(IF s.moveLeft \/ s.moveRight
                THEN vx - Mul(Mul(direction.x, currentSpeed), delta)
                ELSE vx,
                vy,
                IF s.moveForward \/ s.moveBackward
                THEN vz - Mul(Mul(direction.z, currentSpeed), delta)
                ELSE vz)]

\* step 5, X axis: move, and undo the move on a collision.  The argument of
\* detectCollision is the camera's own position vector, already moved.
moveX_1(s, delta, q) ==
    LET moved == moveRightBy(s.position, q, Mul(-s.velocity.x, delta))
    IN  IF detectCollision(moved, moved)
        THEN [s EXCEPT !.position =
                  moveRightBy(moved, q, Mul(s.velocity.x, delta)),
                       !.velocity.x = 0]
        ELSE [s EXCEPT !.position = moved]

\* step 5, Z axis
moveZ_1(s, delta, q) ==
    LET moved == moveForwardBy(s.position, q, Mul(-s.velocity.z, delta))
    IN  IF detectCollision(moved, moved)
        THEN [s EXCEPT !.position =
                  moveForwardBy(moved, q, Mul(s.velocity.z, delta)),
                       !.velocity.z = 0]
        ELSE [s EXCEPT !.position = moved]

\* vertical_1 testing position.y against 0 instead of the eye height
vertical_1_FloorAtZero(s, delta) ==
    LET y == Integrate(s.position.y, s.velocity.y, delta)
    IN  IF y < 0
        THEN [s EXCEPT !.velocity.y = 0, !.position.y = PLAYER_HEIGHT_1,
                       !.canJump = TRUE]
        ELSE [s EXCEPT !.position.y = y]

\* step 6: vertical movement and the floor check
vertical_1(s, delta) ==
    LET y == Integrate(s.position.y, s.velocity.y, delta)
    IN  IF y < PLAYER_HEIGHT_1
        THEN [s EXCEPT !.velocity.y = 0, !.position.y = PLAYER_HEIGHT_1,
                       !.canJump = TRUE]
        ELSE [s EXCEPT !.position.y = y]

\* the body of animate under controls.isLocked
animate_1(s, delta, q) ==
    vertical_1(moveZ_1(moveX_1(updateVelocity_1(s, delta), delta, q), delta, q), delta)

----------------------------------------------------------------------------
(* script2: src/script.js 249-487 *)

\* the four axis rays of checkWallJump, in its iteration order
wallJumpDirections == <<Vec(1, 0, 0), Vec(-1, 0, 0), Vec(0, 0, 1), Vec(0, 0, -1)>>

\* one iteration of checkWallJump's loop: the ray turned by the yaw hits
\* a wall within 2 units (the raycaster was built with far = 10)
wallJumpHit(p, dir, q) ==
    LET intersects == Intersections(p, applyAxisAngle(dir, q), 10 * MILLI, objects)
    IN  intersects # {} /\ Nearest(intersects) < 2 * MILLI

\* checkWallJump casting the +X and -X rays only
checkWallJump_SideRays(s, q) ==
    IF \E i \in 1 .. 2 : wallJumpHit(s.position, wallJumpDirections[i], q)
    THEN [s EXCEPT !.velocity.y = WALL_JUMP_FORCE_UP_2]
    ELSE s

checkWallJump(s, q) ==
    IF \E i \in 1 .. Len(wallJumpDirections) :
           wallJumpHit(s.position, wallJumpDirections[i], q)
    THEN [s EXCEPT !.velocity.y = WALL_JUMP_FORCE_UP_2]
    ELSE s

\* case 'Space'
jump_2(s, q) ==
    IF s.canJump
    THEN [s EXCEPT !.velocity.y = JUMP_FORCE_2, !.canJump = FALSE]
    ELSE checkWallJump(s, q)

\* crouchDown_2 without its isCrouching test: a repeated key-down lowers the
\* camera again
crouchDown_2_Unguarded(s) ==
    [s EXCEPT !.isCrouching = TRUE,
              !.position.y = @ - (PLAYER_HEIGHT_2 - CROUCH_HEIGHT_2)]

\* case 'KeyC' of onKeyDown
crouchDown_2(s) ==
    IF ~s.isCrouching
    THEN [s EXCEPT !.isCrouching = TRUE,
                   !.position.y = @ - (PLAYER_HEIGHT_2 - CROUCH_HEIGHT_2)]
    ELSE s

\* case 'KeyC' of onKeyUp
crouchUp_2(s) ==
    IF s.isCrouching
    THEN [s EXCEPT !.isCrouching = FALSE,
                   !.position.y = @ + (PLAYER_HEIGHT_2 - CROUCH_HEIGHT_2)]
    ELSE s

onKeyDown_2(s, code, q) ==
    CASE code \in {"ArrowUp", "KeyW"} -> [s EXCEPT !.moveForward = TRUE]
      [] code \in {"ArrowLeft", "KeyA"} -> [s EXCEPT !.moveLeft = TRUE]
      [] code \in {"ArrowDown", "KeyS"} -> [s EXCEPT !.moveBackward = TRUE]
      [] code \in {"ArrowRight", "KeyD"} -> [s EXCEPT !.moveRight = TRUE]
      [] code = "Space" -> jump_2(s, q)
      [] code = "ShiftLeft" -> [s EXCEPT !.isSprinting = TRUE]
      [] code = "KeyC" -> crouchDown_2(s)
      [] OTHER -> s

onKeyUp_2(s, code) ==
    CASE code \in {"ArrowUp", "KeyW"} -> [s EXCEPT !.moveForward = FALSE]
      [] code \in {"ArrowLeft", "KeyA"} -> [s EXCEPT !.moveLeft = FALSE]
      [] code \in {"ArrowDown", "KeyS"} -> [s EXCEPT !.moveBackward = FALSE]
      [] code \in {"ArrowRight", "KeyD"} -> [s EXCEPT !.moveRight = FALSE]
      [] code = "ShiftLeft" -> [s EXCEPT !.isSprinting = FALSE]
      [] code = "KeyC" -> crouchUp_2(s)
      [] OTHER -> s

\* actualSpeed_2 with the sprint test made last, so that sprint overrides
\* crouch
actualSpeed_2_SprintLast(s) ==
    LET crouched == IF s.isCrouching THEN CROUCH_SPEED_2 ELSE MOVEMENT_SPEED_2
    IN  IF s.isSprinting
        THEN Mul(MOVEMENT_SPEED_2, SPRINT_MULTIPLIER_2)
        ELSE crouched

\* "Determine Speed"
actualSpeed_2(s) ==
    LET sprinted == IF s.isSprinting
                    THEN Mul(MOVEMENT_SPEED_2, SPRINT_MULTIPLIER_2)
                    ELSE MOVEMENT_SPEED_2
    IN  IF s.isCrouching THEN CROUCH_SPEED_2 ELSE sprinted

\* damping, gravity (the literal 9.8 * 10.0), speed, direction, acceleration
updateVelocity_2(s, delta) ==
    LET vx == Friction(s.velocity.x, delta)
        vz == Friction(s.velocity.z, delta)
        vy == s.velocity.y - Mul(Mul(9800, 10 * MILLI), delta)
        actualSpeed == actualSpeed_2(s)
        direction == Direction(s)
    IN  [s EXCEPT !.velocity =
            Vec(IF s.moveLeft \/ s.moveRight
                THEN vx - Mul(Mul(Mul(direction.x, 400 * MILLI), delta),
                          TruncDiv(actualSpeed, 10))
                ELSE vx,
                vy,
                IF s.moveForward \/ s.moveBackward
                THEN vz - Mul(Mul(Mul(direction.z, 400 * MILLI), delta),
                          TruncDiv(actualSpeed, 10))
                ELSE vz)]

\* "Apply Movement": no collision test in this variant
move_2(s, delta, q) ==
    LET movedX == moveRightBy(s.position, q, Mul(-s.velocity.x, delta))
    IN  [s EXCEPT !.position =
            moveForwardBy(movedX, q, Mul(-s.velocity.z, delta))]

currentHeight_2(s) == IF s.isCrouching THEN CROUCH_HEIGHT_2 ELSE PLAYER_HEIGHT_2

\* vertical_2 testing the floor against the standing height only
vertical_2_Standing(s, delta) ==
    LET y == Integrate(s.position.y, s.velocity.y, delta)
    IN  IF y < PLAYER_HEIGHT_2
        THEN [s EXCEPT !.velocity.y = 0, !.position.y = PLAYER_HEIGHT_2,
                       !.canJump = TRUE]
        ELSE [s EXCEPT !.position.y = y]

\* vertical movement and the floor collision
vertical_2(s, delta) ==
    LET y == Integrate(s.position.y, s.velocity.y, delta)
        currentHeight == currentHeight_2(s)
    IN  IF y < currentHeight
        THEN [s EXCEPT !.velocity.y = 0, !.position.y = currentHeight,
                       !.canJump = TRUE]
        ELSE [s EXCEPT !.position.y = y]

animate_2(s, delta, q) ==
    vertical_2(move_2(updateVelocity_2(s, delta), delta, q), delta)

----------------------------------------------------------------------------
(* game: src/game.js *)

currentHeight_G(s) == IF s.isCrouching THEN CROUCH_HEIGHT_G ELSE NORMAL_HEIGHT_G

\* updateCameraHeight always writing the standing height
updateCameraHeight_Standing(s) == [s EXCEPT !.position.y = NORMAL_HEIGHT_G]

\* updateCameraHeight, called after isCrouching was written
updateCameraHeight(s) == [s EXCEPT !.position.y = currentHeight_G(s)]

\* case 'Space'
jump_G(s) ==
    IF s.canJump
    THEN [s EXCEPT !.velocity.y = JUMP_VELOCITY_G, !.canJump = FALSE]
    ELSE s

onKeyDown_G(s, code) ==
    CASE code = "KeyW" -> [s EXCEPT !.moveForward = TRUE]
      [] code = "KeyS" -> [s EXCEPT !.moveBackward = TRUE]
      [] code = "KeyA" -> [s EXCEPT !.moveLeft = TRUE]
      [] code = "KeyD" -> [s EXCEPT !.moveRight = TRUE]
      [] code = "Space" -> jump_G(s)
      [] code = "ShiftLeft" -> [s EXCEPT !.isSprinting = TRUE]
      [] code = "ControlLeft" -> updateCameraHeight([s EXCEPT !.isCrouching = TRUE])
      [] OTHER -> s

onKeyUp_G(s, code) ==
    CASE code = "KeyW" -> [s EXCEPT !.moveForward = FALSE]
      [] code = "KeyS" -> [s EXCEPT !.moveBackward = FALSE]
      [] code = "KeyA" -> [s EXCEPT !.moveLeft = FALSE]
      [] code = "KeyD" -> [s EXCEPT !.moveRight = FALSE]
      [] code = "ShiftLeft" -> [s EXCEPT !.isSprinting = FALSE]
      [] code = "ControlLeft" -> updateCameraHeight([s EXCEPT !.isCrouching = FALSE])
      [] OTHER -> s

\* "Calculate speed based on state"
speed_G(s) ==
    IF s.isSprinting /\ ~s.isCrouching THEN SPRINT_SPEED_G
    ELSE IF s.isCrouching THEN CROUCH_SPEED_G
    ELSE NORMAL_SPEED_G

\* moveVector: forward * (direction.z * speed * delta) plus
\* right * (direction.x * speed * delta)
moveVector_G(s, delta, q) ==
    LET direction == Direction(s)
        speed == speed_G(s)
        fwd == IF s.moveForward \/ s.moveBackward
               THEN Mul(Mul(direction.z, speed), delta)
               ELSE 0
        rgt == IF s.moveLeft \/ s.moveRight
               THEN Mul(Mul(direction.x, speed), delta)
               ELSE 0
    IN  AddScaled(AddScaled(Vec(0, 0, 0), ForwardVec(q), fwd), RightVec(q), rgt)

\* checkWallCollision(direction, distance): a ray from the camera position
checkWallCollision(p, dir, distance) ==
    LET intersections == Intersections(p, dir, Unbounded, collidableObjects)
    IN  intersections # {} /\ Nearest(intersections) < distance

\* move_G also recording the horizontal move of the tick in velocity
move_G_WithVelocity(s, delta, q) ==
    LET moveVector == moveVector_G(s, delta, q)
        checkDirection == Vec(Sign(moveVector.x), 0, Sign(moveVector.z))
    IN  IF moveVector # Vec(0, 0, 0)
           /\ ~checkWallCollision(s.position, checkDirection, 500)
        THEN [s EXCEPT !.position = AddScaled(@, moveVector, 1),
                       !.velocity.x = moveVector.x,
                       !.velocity.z = moveVector.z]
        ELSE s

\* "Check wall collisions before moving": one ray along the whole move
move_G(s, delta, q) ==
    LET moveVector == moveVector_G(s, delta, q)
        checkDirection == Vec(Sign(moveVector.x), 0, Sign(moveVector.z))
    IN  IF moveVector # Vec(0, 0, 0)
           /\ ~checkWallCollision(s.position, checkDirection, 500)
        THEN [s EXCEPT !.position = AddScaled(@, moveVector, 1)]
        ELSE s

\* onObject of checkCollisions: the ground ray, straight down from the
\* camera, finds a collidable within the eye height plus 0.1
onObject(s) ==
    LET intersections ==
            Intersections(s.position, Vec(0, -1, 0), Unbounded, collidableObjects)
    IN  /\ intersections # {}
        /\ Nearest(intersections) < currentHeight_G(s) + 100

checkCollisions(s) ==
    IF onObject(s)
    THEN [s EXCEPT !.canJump = TRUE, !.velocity.y = IF @ < 0 THEN 0 ELSE @]
    ELSE s


\* the floor test that ends animate
floor_G(s) ==
    IF s.position.y < currentHeight_G(s)
    THEN [s EXCEPT !.position.y = currentHeight_G(s), !.velocity.y = 0,
                   !.canJump = TRUE]
    ELSE s

\* "Apply gravity"
gravity_G(s, delta) == [s EXCEPT !.velocity.y = @ - Mul(GRAVITY_G, delta)]

\* "Apply vertical velocity"
rise_G(s, delta) == [s EXCEPT !.position.y = Integrate(@, s.velocity.y, delta)]

animate_G(s, delta, q) ==
    floor_G(checkCollisions(rise_G(move_G(gravity_G(s, delta), delta, q), delta)))

----------------------------------------------------------------------------------------------------------------------------------------
(* The state machine.  An event handler or a frame callback runs to its    *)
(* end before the next starts (one thread); key events arrive whether or   *)
(* not the pointer is locked.  lastOp names the handler that ran last, the *)
(* key it was given, and the delta a frame callback integrated.            *)

Scripts == {"script1", "script2"}

Variants == Scripts \cup {"game"}

Op(name, code, delta) == [op |-> name, code |-> code, delta |-> delta]

\* the camera position each variant's init() sets
InitialPosition(v) ==
    IF v = "game" THEN Vec(0, NORMAL_HEIGHT_G, 5000)
    ELSE IF v = "script1" THEN Vec(0, PLAYER_HEIGHT_1, 0)
    ELSE Vec(0, PLAYER_HEIGHT_2, 0)

\* the state after construction, the camera standing at p
InitAt(v, p) ==
    /\ variant = v
    /\ moveForward = FALSE /\ moveBackward = FALSE
    /\ moveLeft = FALSE /\ moveRight = FALSE
    /\ canJump = FALSE /\ isSprinting = FALSE /\ isCrouching = FALSE
    /\ velocity = Vec(0, 0, 0)
    /\ position = p
    /\ isLocked = FALSE
    /\ yaw = 0
    /\ now = 0 /\ prevTime = 0
    /\ clockRunning = FALSE
    /\ frames = 0
    /\ lastOp = Op("init", "", 0)

Set(s) ==
    /\ moveForward' = s.moveForward /\ moveBackward' = s.moveBackward
    /\ moveLeft' = s.moveLeft /\ moveRight' = s.moveRight
    /\ canJump' = s.canJump
    /\ isSprinting' = s.isSprinting /\ isCrouching' = s.isCrouching
    /\ velocity' = s.velocity /\ position' = s.position

onKeyDown(v, s, code, q) ==
    IF v = "script1" THEN onKeyDown_1(s, code)
    ELSE IF v = "script2" THEN onKeyDown_2(s, code, q)
    ELSE onKeyDown_G(s, code)

onKeyUp(v, s, code) ==
    IF v = "script1" THEN onKeyUp_1(s, code)
    ELSE IF v = "script2" THEN onKeyUp_2(s, code)
    ELSE onKeyUp_G(s, code)

\* the physics of one frame callback of a script variant
animate(v, s, delta, q) ==
    IF v = "script1" THEN animate_1(s, delta, q) ELSE animate_2(s, delta, q)

KeyDown(code) ==
    /\ Set(onKeyDown(variant, cur, code, yaw))
    /\ lastOp' = Op("keydown", code, 0)
    /\ UNCHANGED <<variant, isLocked, yaw, now, prevTime, clockRunning, frames>>

KeyUp(code) ==
    /\ Set(onKeyUp(variant, cur, code))
    /\ lastOp' = Op("keyup", code, 0)
    /\ UNCHANGED <<variant, isLocked, yaw, now, prevTime, clockRunning, frames>>

\* a click locks the pointer (script variants)
Lock ==
    /\ variant \in Scripts
    /\ ~isLocked
    /\ isLocked' = TRUE
    /\ lastOp' = Op("lock", "", 0)
    /\ UNCHANGED <<variant, moveForward, moveBackward, moveLeft, moveRight,
                   canJump, isSprinting, isCrouching, velocity, position, yaw,
                   now, prevTime, clockRunning, frames>>

\* Escape releases it
Unlock ==
    /\ variant \in Scripts
    /\ isLocked
    /\ isLocked' = FALSE
    /\ lastOp' = Op("unlock", "", 0)
    /\ UNCHANGED <<variant, moveForward, moveBackward, moveLeft, moveRight,
                   canJump, isSprinting, isCrouching, velocity, position, yaw,
                   now, prevTime, clockRunning, frames>>

\* mouse look: the yaw turns by quarter turns
MouseMove(turn) ==
    /\ yaw' = (yaw + turn) % 4
    /\ lastOp' = Op("mousemove", "", 0)
    /\ UNCHANGED <<variant, moveForward, moveBackward, moveLeft, moveRight,
                   canJump, isSprinting, isCrouching, velocity, position,
                   isLocked, now, prevTime, clockRunning, frames>>

\* FrameScript writing prevTime inside the locked branch only
FrameScript_LockedOnly(dt, max) ==
    /\ variant \in Scripts
    /\ frames < max
    /\ frames' = frames + 1
    /\ now' = now + dt
    /\ IF isLocked
       THEN /\ Set(animate(variant, cur, (now + dt) - prevTime, yaw))
            /\ lastOp' = Op("animate", "", (now + dt) - prevTime)
            /\ prevTime' = now + dt
       ELSE /\ UNCHANGED <<moveForward, moveBackward, moveLeft, moveRight,
                           canJump, isSprinting, isCrouching, velocity, position>>
            /\ lastOp' = Op("render", "", 0)
            /\ UNCHANGED prevTime
    /\ UNCHANGED <<variant, isLocked, yaw, clockRunning>>

\* a frame callback of a script variant, dt milliseconds after the last;
\* max bounds the frame callbacks of a behaviour
FrameScript(dt, max) ==
    /\ variant \in Scripts
    /\ frames < max
    /\ frames' = frames + 1
    /\ now' = now + dt
    /\ IF isLocked
       THEN /\ Set(animate(variant, cur, (now + dt) - prevTime, yaw))
            /\ lastOp' = Op("animate", "", (now + dt) - prevTime)
       ELSE /\ UNCHANGED <<moveForward, moveBackward, moveLeft, moveRight,
                           canJump, isSprinting, isCrouching, velocity, position>>
            /\ lastOp' = Op("render", "", 0)
    /\ prevTime' = now + dt
    /\ UNCHANGED <<variant, isLocked, yaw, clockRunning>>

\* clock.getDelta(): 0 at its first call, which starts the clock, and the
\* time since its last call after that
getDelta(running, oldTime, newTime) == IF running THEN newTime - oldTime ELSE 0

\* a frame callback of game.js
FrameGame(dt, max) ==
    /\ variant = "game"
    /\ frames < max
    /\ frames' = frames + 1
    /\ now' = now + dt
    /\ Set(animate_G(cur, getDelta(clockRunning, prevTime, now + dt), yaw))
    /\ lastOp' = Op("animate", "", getDelta(clockRunning, prevTime, now + dt))
    /\ clockRunning' = TRUE
    /\ prevTime' = now + dt
    /\ UNCHANGED <<variant, isLocked, yaw>>

CrouchKey(v) == IF v = "game" THEN "ControlLeft" ELSE "KeyC"

\* the eye height of the variant's floor test
EyeHeight(v, s) ==
    IF v = "script1" THEN PLAYER_HEIGHT_1
    ELSE IF v = "script2" THEN currentHeight_2(s)
    ELSE currentHeight_G(s)

JumpForce(v) ==
    IF v = "script1" THEN JUMP_FORCE_1
    ELSE IF v = "script2" THEN JUMP_FORCE_2
    ELSE JUMP_VELOCITY_G

----------------------------------------------------------------------------
(* Spec: jumping, crouching and the floor in the three variants.  The      *)
(* camera starts where init() puts it, or at a place it can walk to: one   *)
(* unit from the long wall of script2, 0.3 units in front of the low box  *)
(* of game.js.  Walking is enumerated for game.js only (SpecWalk has the   *)
(* script variants walk), the mouse turn for script2 only.                 *)

\* frame callbacks of a behaviour of Spec
MaxFrames == 4

Deltas == {100, 250, 500}

StartPositions(v) ==
    {InitialPosition(v)} \cup
    (IF v = "script2" THEN {Vec(8000, PLAYER_HEIGHT_2, 0)}
     ELSE IF v = "game" THEN {Vec(-10000, NORMAL_HEIGHT_G, -8200)}
     ELSE {})

Init == \E v \in Variants : \E p \in StartPositions(v) : InitAt(v, p)

Next ==
    \/ KeyDown("Space")
    \/ KeyDown(CrouchKey(variant))
    \/ KeyUp(CrouchKey(variant))
    \/ (variant = "game" /\ KeyDown("KeyW"))
    \/ (variant = "game" /\ KeyUp("KeyW"))
    \/ (variant = "script2" /\ MouseMove(1))
    \/ Lock
    \/ Unlock
    \/ \E dt \in Deltas : FrameScript(dt, MaxFrames)
    \/ \E dt \in Deltas : FrameGame(dt, MaxFrames)

Spec == Init /\ [][Next]_vars

----------------------------------------------------------------------------
(* Claims checked under Spec *)

JumpKeyDown == lastOp'.op = "keydown" /\ lastOp'.code = "Space"

PhysicsTick == lastOp'.op = "animate"

\* C1: a jump key-down while canJump holds sets velocity.y to the variant's
\* jump force and clears canJump; a jump key-down while canJump is false
\* leaves canJump false and does not set velocity.y to the jump force; and
\* canJump only ever turns true in a physics tick, so two ground jumps are
\* separated by a tick that grounded the actor.
C1_JumpNeedsGround ==
    [][/\ JumpKeyDown =>
            IF canJump
            THEN velocity'.y = JumpForce(variant) /\ ~canJump'
            ELSE /\ ~canJump'
                 /\ velocity'.y = velocity.y \/ velocity'.y # JumpForce(variant)
       /\ (~canJump /\ canJump') => PhysicsTick]_vars

\* a ground jump has just been made, after a tick grounded the actor
C1_Witness ==
    /\ lastOp = Op("keydown", "Space", 0)
    /\ velocity.y = JumpForce(variant)
    /\ ~canJump
    /\ frames >= 1

\* position.y as integrated by the tick of length delta, before the floor test
IntegratedY(v, s, delta) ==
    IF v = "script1" THEN Integrate(s.position.y, updateVelocity_1(s, delta).velocity.y, delta)
    ELSE IF v = "script2" THEN Integrate(s.position.y, updateVelocity_2(s, delta).velocity.y, delta)
    ELSE Integrate(s.position.y, gravity_G(s, delta).velocity.y, delta)

C3_GroundedAboveEye == canJump => position.y >= EyeHeight(variant, cur)

\* crouch was released on a grounded actor, which stands at full height again
C3_Witness ==
    /\ lastOp = Op("keyup", CrouchKey(variant), 0)
    /\ variant # "script1"
    /\ canJump
    /\ ~isCrouching
    /\ position.y = EyeHeight(variant, cur)
    /\ frames >= 2

\* C4 as claimed: in script2 (JUMP_FORCE = 15, GRAVITY = 40), the tick of
\* delta = 0.1 that follows a jump from rest at position.y = 1.8 ends with
\* velocity.y = 15 - 40 * 0.1 = 11 and position.y = 1.8 + 11 * 0.1 = 2.9.
C4_Claimed ==
    [][(/\ variant = "script2"
        /\ lastOp = Op("keydown", "Space", 0)
        /\ velocity.y = JUMP_FORCE_2
        /\ position.y = PLAYER_HEIGHT_2
        /\ PhysicsTick
        /\ lastOp'.delta = 100)
       => /\ velocity'.y = JUMP_FORCE_2 - Mul(GRAVITY_2, 100)
          /\ position'.y =
                PLAYER_HEIGHT_2 + Mul(JUMP_FORCE_2 - Mul(GRAVITY_2, 100), 100)]_vars

StandHeight(v) == IF v = "game" THEN NORMAL_HEIGHT_G ELSE PLAYER_HEIGHT_2

CrouchHeight(v) == IF v = "game" THEN CROUCH_HEIGHT_G ELSE CROUCH_HEIGHT_2

\* C8: in script2 and game.js, a crouch key-down followed by a crouch key-up
\* leaves the eye height at its pre-crouch (standing) value, and a crouch
\* key-down on a grounded standing actor puts position.y at the crouch eye
\* height in the key handler itself.
C8_CrouchRoundTrip ==
    variant # "script1" =>
        LET down == onKeyDown(variant, cur, CrouchKey(variant), yaw)
            up == onKeyUp(variant, down, CrouchKey(variant))
        IN  /\ EyeHeight(variant, down) = CrouchHeight(variant)
            /\ EyeHeight(variant, up) = StandHeight(variant)
            /\ ~isCrouching => EyeHeight(variant, up) = EyeHeight(variant, cur)
            /\ (canJump /\ ~isCrouching) => down.position.y = CrouchHeight(variant)

\* the crouch key went down on a grounded actor and no tick has run since:
\* the camera is at the crouch height
C8_Witness ==
    /\ lastOp = Op("keydown", CrouchKey(variant), 0)
    /\ variant # "script1"
    /\ canJump
    /\ isCrouching
    /\ position.y = CrouchHeight(variant)

\* one of the four axis rays, turned by the yaw, meets a wall closer than 2
WallWithinTwo(p, q) ==
    \E d \in {Vec(1, 0, 0), Vec(-1, 0, 0), Vec(0, 0, 1), Vec(0, 0, -1)} :
        \E t \in Intersections(p, applyAxisAngle(d, q), 10 * MILLI, objects) :
            t < 2 * MILLI

\* C10: in script2 a jump key-down while canJump is false sets velocity.y to
\* WALL_JUMP_FORCE_UP exactly if one of the four yaw-rotated axis rays hits
\* a wall at a distance below 2, and then changes nothing else (velocity.x,
\* velocity.z and canJump included); with no such hit it changes nothing.
C10_WallJump ==
    [][(variant = "script2" /\ JumpKeyDown /\ ~canJump) =>
          IF WallWithinTwo(position, yaw)
          THEN cur' = [cur EXCEPT !.velocity.y = WALL_JUMP_FORCE_UP_2]
          ELSE cur' = cur]_vars

\* a wall jump has just been granted, the camera turned a quarter turn
C10_Witness ==
    /\ variant = "script2"
    /\ lastOp = Op("keydown", "Space", 0)
    /\ ~canJump
    /\ velocity.y = WALL_JUMP_FORCE_UP_2
    /\ yaw = 1
    /\ frames >= 1


----------------------------------------------------------------------------
(* SpecWalk: walking, damping and the wall tests.  The camera starts where *)
(* init() puts it, or at a place it can walk to: in script1 one unit left  *)
(* of the end face (x = 0) of the wall along +X, in game.js 0.3 units left *)
(* of the low box (x from -11.5 to -8.5).  The pointer can be locked but   *)
(* not released, the mouse is not moved, nobody jumps or crouches.         *)

\* frame callbacks of a behaviour of SpecWalk
MaxWalkFrames == 3

WalkDeltas == {50, 100, 250}

WalkKeys == {"KeyW", "KeyD"}

WalkPositions(v) ==
    {InitialPosition(v)} \cup
    (IF v = "script1" THEN {Vec(-1000, PLAYER_HEIGHT_1, 0)}
     ELSE IF v = "game" THEN {Vec(-11800, NORMAL_HEIGHT_G, -10000)}
     ELSE {})

InitWalk == \E v \in Variants : \E p \in WalkPositions(v) : InitAt(v, p)

NextWalk ==
    \/ \E code \in WalkKeys : KeyDown(code)
    \/ \E code \in WalkKeys : KeyUp(code)
    \/ Lock
    \/ \E dt \in WalkDeltas : FrameScript(dt, MaxWalkFrames)
    \/ \E dt \in WalkDeltas : FrameGame(dt, MaxWalkFrames)

SpecWalk == InitWalk /\ [][NextWalk]_vars

----------------------------------------------------------------------------
(* Claims checked under SpecWalk *)

\* the horizontal displacement from a to b measured along axis
Along(a, b, axis) == (b.x - a.x) * axis.x + (b.z - a.z) * axis.z

\* the X and Z displacements script1 attempts in a tick of length delta
stepX_1(s, delta) == Mul(-updateVelocity_1(s, delta).velocity.x, delta)

stepZ_1(s, delta) == Mul(-updateVelocity_1(s, delta).velocity.z, delta)

\* the ray of checkWallCollision in a tick of length delta
checkDirection_G(s, delta, q) ==
    LET moveVector == moveVector_G(s, delta, q)
    IN  Vec(Sign(moveVector.x), 0, Sign(moveVector.z))

\* C5 as claimed: a horizontal step is not committed when a ray from the
\* pre-step position along the direction of travel meets a wall closer than
\* the threshold (PLAYER_RADIUS for the X step of script1, 0.5 in game.js).
C5_Claimed ==
    [][PhysicsTick =>
          /\ variant = "script1" =>
                LET stepX == stepX_1(cur, lastOp'.delta)
                    target == moveRightBy(position, yaw, stepX)
                IN  (stepX # 0 /\ detectCollision(target, position))
                        => Along(position, position', RightVec(yaw)) = 0
          /\ variant = "game" =>
                LET dir == checkDirection_G(cur, lastOp'.delta, yaw)
                IN  (dir # Vec(0, 0, 0) /\ checkWallCollision(position, dir, 500))
                        => /\ position'.x = position.x
                           /\ position'.z = position.z]_vars

\* a wall blocks the X displacement of a diagonal request and not its Z
\* displacement: rays from the pre-step position along each axis of travel
BlockedOnXOnly(v, s, delta, q) ==
    /\ s.moveForward # s.moveBackward
    /\ s.moveLeft # s.moveRight
    /\ delta > 0
    /\ IF v = "script1"
       THEN /\ detectCollision(moveRightBy(s.position, q, stepX_1(s, delta)),
                               s.position)
            /\ ~detectCollision(moveForwardBy(s.position, q, stepZ_1(s, delta)),
                                s.position)
       ELSE LET moveVector == moveVector_G(s, delta, q)
                alongX == Along(Vec(0, 0, 0), moveVector, RightVec(q))
                alongZ == Along(Vec(0, 0, 0), moveVector, ForwardVec(q))
                dirX == AddScaled(Vec(0, 0, 0), RightVec(q), Sign(alongX))
                dirZ == AddScaled(Vec(0, 0, 0), ForwardVec(q), Sign(alongZ))
            IN  /\ checkWallCollision(s.position, dirX, 500)
                /\ ~checkWallCollision(s.position, dirZ, 500)

\* C6 as claimed: in script1 and game.js, a tick with a diagonal request in
\* which a wall blocks only the X displacement reverts the X displacement,
\* zeroes velocity.x, and applies a nonzero Z displacement.
C6_Claimed ==
    [][(/\ PhysicsTick
        /\ variant \in {"script1", "game"}
        /\ BlockedOnXOnly(variant, cur, lastOp'.delta, yaw))
       => /\ Along(position, position', RightVec(yaw)) = 0
          /\ velocity'.x = 0
          /\ Along(position, position', ForwardVec(yaw)) # 0]_vars


\* a tick of a script variant with no directional key held (neither variant
\* reverts a step in SpecWalk: script2 has no wall test, and the wall test
\* of script1 casts a ray of zero direction)
CoastingTick ==
    /\ PhysicsTick
    /\ variant \in Scripts
    /\ ~(moveForward \/ moveBackward \/ moveLeft \/ moveRight)

\* the magnitude did not grow and the sign did not flip
Damped(v, w) == Abs(w) <= Abs(v) /\ Sign(w) \in {0, Sign(v)}

\* C7 as claimed: with no directional key held, for every positive delta a
\* tick leaves |velocity.x| and |velocity.z| no larger and does not change
\* the sign of velocity.x or velocity.z.
C7_Claimed ==
    [][CoastingTick =>
          /\ Damped(velocity.x, velocity'.x)
          /\ Damped(velocity.z, velocity'.z)]_vars

\* the geometric decay of one tick: |w| is |v| * (1 - 10 * delta), up to the
\* rounding of the last digit
Decayed(v, w, delta) ==
    /\ Damped(v, w)
    /\ Abs(w) <= Mul(Abs(v), MILLI - 10 * delta) + 1
    /\ Abs(w) >= Mul(Abs(v), MILLI - 10 * delta)

\* C7 as amended: with no directional key held, a tick with
\* 0 < delta <= 0.1 multiplies velocity.x and velocity.z by 1 - 10 * delta,
\* a factor in [0, 1): the magnitudes do not grow, shrink geometrically, and
\* the signs do not change.
C7_DampingConverges ==
    [][(CoastingTick /\ lastOp'.delta > 0 /\ lastOp'.delta <= 100) =>
          /\ Decayed(velocity.x, velocity'.x, lastOp'.delta)
          /\ Decayed(velocity.z, velocity'.z, lastOp'.delta)]_vars

\* a coasting tick of 0.05 s has halved a diagonal velocity
C7_Witness ==
    /\ lastOp = Op("animate", "", 50)
    /\ variant \in Scripts
    /\ ~(moveForward \/ moveBackward \/ moveLeft \/ moveRight)
    /\ velocity.x # 0
    /\ velocity.z # 0
    /\ frames >= 2


----------------------------------------------------------------------------
(* SpecSpeed: sprint and crouch while walking forward, from the position   *)
(* init() sets, in ticks of 0.1 s.                                         *)

\* frame callbacks of a behaviour of SpecSpeed
MaxSpeedFrames == 2

InitSpeed == \E v \in Variants : InitAt(v, InitialPosition(v))

NextSpeed ==
    \/ KeyDown("ShiftLeft")
    \/ KeyUp("ShiftLeft")
    \/ KeyDown(CrouchKey(variant))
    \/ KeyUp(CrouchKey(variant))
    \/ KeyDown("KeyW")
    \/ Lock
    \/ FrameScript(100, MaxSpeedFrames)
    \/ FrameGame(100, MaxSpeedFrames)

SpecSpeed == InitSpeed /\ [][NextSpeed]_vars

----------------------------------------------------------------------------
(* Claims checked under SpecSpeed *)

\* the speed the variant's tick selects
SelectedSpeed(v, s) ==
    IF v = "script1" THEN currentSpeed_1(s)
    ELSE IF v = "script2" THEN actualSpeed_2(s)
    ELSE speed_G(s)

BaseSpeed(v) ==
    IF v = "script1" THEN WALK_SPEED_1
    ELSE IF v = "script2" THEN MOVEMENT_SPEED_2
    ELSE NORMAL_SPEED_G

SprintSpeed(v) ==
    IF v = "script1" THEN SPRINT_SPEED_1
    ELSE IF v = "script2" THEN Mul(MOVEMENT_SPEED_2, SPRINT_MULTIPLIER_2)
    ELSE SPRINT_SPEED_G

CrouchSpeed(v) == IF v = "script2" THEN CROUCH_SPEED_2 ELSE CROUCH_SPEED_G

\* crouch before sprint before base
PrecedenceSpeed(v, s) ==
    IF s.isCrouching THEN CrouchSpeed(v)
    ELSE IF s.isSprinting THEN SprintSpeed(v)
    ELSE BaseSpeed(v)

\* what a tick of length delta with only the forward key held does at the
\* given speed: the script variants accelerate velocity.z, game.js moves
\* the camera along its forward vector unless a wall is in the way
ForwardAt(v, speed, delta) ==
    IF v = "script1"
    THEN velocity'.z = Friction(velocity.z, delta) - Mul(Mul(MILLI, speed), delta)
    ELSE IF v = "script2"
    THEN velocity'.z = Friction(velocity.z, delta)
                         - Mul(Mul(Mul(MILLI, 400 * MILLI), delta), TruncDiv(speed, 10))
    ELSE \/ checkWallCollision(position, ForwardVec(yaw), 500)
         \/ Along(position, position', ForwardVec(yaw)) = Mul(Mul(MILLI, speed), delta)

\* C9: in a tick the selected speed is the crouch speed whenever isCrouching
\* is true (also when isSprinting is true), the sprint speed when only
\* isSprinting is true, and the base speed otherwise; and the tick walks
\* forward at that speed.
C9_SpeedSelection ==
    [][PhysicsTick =>
          /\ SelectedSpeed(variant, cur) = PrecedenceSpeed(variant, cur)
          /\ (moveForward /\ lastOp'.delta > 0) =>
                ForwardAt(variant, PrecedenceSpeed(variant, cur), lastOp'.delta)]_vars

\* a tick has walked forward with both sprint and crouch held: script2
\* accelerated by 400 * 0.1 * (5 / 10) = 20
C9_Witness ==
    /\ lastOp = Op("animate", "", 100)
    /\ variant = "script2"
    /\ isSprinting
    /\ isCrouching
    /\ moveForward
    /\ frames = 1
    /\ velocity.z = -20000


----------------------------------------------------------------------------
(* Claims about the event handlers, checked under Spec *)

\* the same key event was delivered twice in a row
RepeatedKeyEvent ==
    /\ lastOp.op \in {"keydown", "keyup"}
    /\ lastOp' = lastOp

\* C11 as claimed: delivering the same key-down or key-up event a second
\* time, with no other event or tick in between, leaves the controller
\* state (input flags, velocity, camera position) as the first delivery
\* left it.
C11_Claimed == [][RepeatedKeyEvent => cur' = cur]_vars


\* C12 as claimed: while controls.isLocked is false, no frame callback and
\* no key event changes the position, the velocity, canJump or the crouch,
\* sprint and movement flags, so the state at re-lock is the state at
\* unlock.
C12_Claimed == [][(variant \in Scripts /\ ~isLocked) => cur' = cur]_vars


\* the actor rests on the floor: at its eye height, not moving vertically,
\* able to jump
GroundedRest(v, s) ==
    /\ s.position.y = EyeHeight(v, s)
    /\ s.velocity.y = 0
    /\ s.canJump

\* C13: a tick with positive delta that starts in grounded rest ends in
\* grounded rest (position.y at the current eye height, velocity.y = 0,
\* canJump true); hence so does every run of ticks without a jump or crouch
\* event between them.
C13_GroundedRestFixedPoint ==
    [][(PhysicsTick /\ lastOp'.delta > 0 /\ GroundedRest(variant, cur))
          => GroundedRest(variant, cur')]_vars

\* game.js: the third frame callback, a tick of 0.1 s, ran from grounded
\* rest (the first has delta 0, the second put the actor on the floor, and
\* a jump after it would still be in the air) and ended in it
C13_Witness ==
    /\ variant = "game"
    /\ frames = 3
    /\ lastOp = Op("animate", "", 100)
    /\ GroundedRest(variant, cur)


----------------------------------------------------------------------------
(* Claims about game.js walking, checked under SpecWalk *)

\* Math.sqrt of a value in thousandths, rounded down to thousandths
Sqrt(a) ==
    IF a = 0 THEN 0
    ELSE CHOOSE r \in 0 .. Max2(a, MILLI) :
             r * r <= a * MILLI /\ (r + 1) * (r + 1) > a * MILLI

\* currentSpeed of updateHUD
currentSpeed_HUD(s) ==
    Sqrt(Mul(s.velocity.x, s.velocity.x) + Mul(s.velocity.z, s.velocity.z))

\* C14: in game.js velocity.x and velocity.z are 0 in every reachable
\* state, whichever movement keys are held, and so is the horizontal speed
\* updateHUD computes from them.
C14_NoHorizontalVelocity ==
    variant = "game" =>
        /\ velocity.x = 0
        /\ velocity.z = 0
        /\ currentSpeed_HUD(cur) = 0

\* game.js: a tick has moved the camera diagonally with W and D held
C14_Witness ==
    /\ variant = "game"
    /\ lastOp.op = "animate"
    /\ lastOp.delta > 0
    /\ moveForward
    /\ moveRight
    /\ position.x > InitialPosition("game").x
    /\ position.z < InitialPosition("game").z
    /\ velocity.x = 0
    /\ velocity.z = 0


----------------------------------------------------------------------------
(* Claims about the frame clock of the script variants, checked under      *)
(* Spec.  now is the time of the latest frame callback: time is read in    *)
(* frame callbacks only.                                                   *)

\* a frame callback of a script variant ran, locked or not
FrameCallback == variant \in Scripts /\ frames' = frames + 1

\* C15: in both script.js variants every frame callback, locked or not,
\* sets prevTime to its own time, and the delta of a physics tick is the
\* time since the frame callback just before it, however long the pointer
\* was unlocked before.
C15_PrevTimeEveryFrame ==
    [][FrameCallback =>
          /\ prevTime' = now'
          /\ PhysicsTick => lastOp'.delta = now' - now]_vars

\* a frame callback ran unlocked after a tick had grounded the actor, and
\* it set prevTime
C15_Witness ==
    /\ variant \in Scripts
    /\ lastOp.op = "render"
    /\ ~isLocked
    /\ canJump
    /\ frames >= 2
    /\ now > 0
    /\ prevTime = now

====
